---- MODULE Spec2Model ----
(***************************************************************************)
(* The retrieval-augmented conversational pipeline of the chatbot:         *)
(* ResponseGenerator (src/src/response_generator.py), the request path of  *)
(* Chatbot.process_query (src/src/chatbot.py) and of the web chat handler  *)
(* (src/web_app.py), and the parts of KnowledgeBase                        *)
(* (src/src/knowledge_base.py) and TTSService (src/src/tts_service.py)     *)
(* that the request path calls.                                            *)
(*                                                                         *)
(* Four specifications share the variables: Spec is the conversational     *)
(* pipeline (one request at a time), SpecKB is the KnowledgeBase called on *)
(* its own over a store (ingestion, search, format_context, get_stats),    *)
(* SpecTTS is the TTSService called on its own (text_to_speech,            *)
(* batch_convert), SpecWeb is the web front end with its request threads   *)
(* side by side on the one module-level ResponseGenerator.                 *)
(*                                                                         *)
(* A text is a sequence of tokens (strings); Optional[x] is None or        *)
(* Some(x).  The three collaborators (vector search, generative model,     *)
(* speech synthesis) are the suspension points of a request: a handler is  *)
(* one action per stretch of code between two collaborator calls.          *)
(***************************************************************************)
EXTENDS Integers, Sequences, FiniteSets, TLC

VARIABLES
    max_history,            \* ResponseGenerator.max_history
    system_prompt,          \* ResponseGenerator.system_prompt
    conversation_history,   \* ResponseGenerator.conversation_history
    enable_tts,             \* Chatbot.enable_tts (tts_service is None when FALSE)
    pc,                     \* where the handler in progress stands
    req,                    \* frame of process_query / chat
    gr,                     \* frame of generate_response
    log,                    \* history variable: the pairs appended since construction or the last clear
    collection,             \* KnowledgeBase.collection: the documents of the store, in insertion order
    kb,                     \* frame of the last KnowledgeBase operation called on its own
    tts,                    \* TTSService: whether the model is loaded, and the frame of its last operation
    web                     \* the chat requests of the web front end running side by side

vars == <<max_history, system_prompt, conversation_history, enable_tts, pc, req, gr, log,
          collection, kb, tts, web>>

\* the state of the conversational pipeline, and the state of the store and of
\* the speech service
rgvars == <<max_history, system_prompt, conversation_history, enable_tts, pc, req, gr, log>>
kbvars == <<collection, kb, tts>>

----------------------------------------------------------------------------
(* Bounds of the model *)

\* largest max_history_turns the model configures (config.py sets 10)
MaxM == 2

\* most pairs appended between two clears
MaxAppends == 3

----------------------------------------------------------------------------
(* Values *)

None == [none |-> TRUE]

Some(x) == [val |-> x]

IsNone(o) == o = None

\* Python truthiness of an Optional[str] or Optional[list]: None and "" are falsy
Truthy(o) == ~IsNone(o) /\ o.val # <<>>

Min(a, b) == IF a < b THEN a ELSE b

Max(a, b) == IF a > b THEN a ELSE b

Whitespace == {" ", "\n"}

RECURSIVE LStrip(_)
LStrip(s) == IF s # <<>> /\ Head(s) \in Whitespace THEN LStrip(Tail(s)) ELSE s

RECURSIVE RStrip(_)
RStrip(s) ==
    IF s # <<>> /\ s[Len(s)] \in Whitespace THEN RStrip(SubSeq(s, 1, Len(s) - 1)) ELSE s

\* str.strip()
Strip(s) == RStrip(LStrip(s))

\* s[start:] with Python's rule for a negative or too large start
PySliceFrom(s, start) ==
    LET from == IF start < 0 THEN Max(Len(s) + start, 0) ELSE Min(start, Len(s))
    IN  SubSeq(s, from + 1, Len(s))

\* s[:stop] for stop >= 0
PySliceTo(s, stop) == SubSeq(s, 1, Min(stop, Len(s)))

Msg(role, content) == [role |-> role, content |-> content]

----------------------------------------------------------------------------
(* Texts of the program *)

DEFAULT_SYSTEM_PROMPT == <<"You are a helpful and friendly customer service chatbot.">>

CONTEXT_PREFIX ==
    <<"Based on the following information from our knowledge base, please answer the user's question:\n\n">>

CONTEXT_SUFFIX ==
    <<"\n\nRemember to synthesize this information naturally in your response. Don't just copy it verbatim.">>

EMPTY_COMPLETION_FALLBACK == <<"I apologize, but I couldn't generate a response.">>

ERROR_PREFIX == "I apologize, but I encountered an error: "

NO_INFO_SENTINEL == <<"No relevant information found in the knowledge base.">>

CONTEXT_HEADER == "Here is relevant information from the knowledge base:\n"

----------------------------------------------------------------------------
(* Inputs and collaborator outcomes the model draws from *)

Queries == {<<"q1">>, <<"q2">>}

\* raw bodies of POST /api/chat: empty, blank, padded
WebMessages == {<<>>, <<" ">>, <<"q1">>, <<" ", "q2", " ">>}

Prompts == {DEFAULT_SYSTEM_PROMPT, <<"custom prompt">>}

\* context arguments of a direct generate_response call
Contexts == {None, Some(<<>>), Some(<<"ctx">>)}

\* assistant_message arguments of a direct add_to_history call
AssistantMessages == {<<"a1">>}

\* what the generative collaborator does with one create() call
LLMOutcomes ==
    { [kind |-> "text", content |-> <<"a1">>, reason |-> <<>>],
      [kind |-> "text", content |-> <<" ", "a1", "\n">>, reason |-> <<>>],
      [kind |-> "absent", content |-> <<>>, reason |-> <<>>],
      [kind |-> "raise", content |-> <<>>, reason |-> <<"timeout">>] }

----------------------------------------------------------------------------
(* KnowledgeBase: search and format_context *)

\* config.TOP_K_RESULTS
TOP_K_RESULTS == 3

Meta1 == [category |-> "billing", question |-> "Q1", answer |-> "A1"]

\* a stored metadata without a category
Meta2 == [question |-> "Q2", answer |-> "A2"]

Doc1 == "Question: Q1\nAnswer: A1"

Doc2 == "Question: Q2\nAnswer: A2"

\* what the vector-search collaborator does with one query() call; each field of
\* a response is None or the list (one entry per query text) of its hits;
\* distances are in thousandths
QueryOutcomes ==
    { [kind |-> "raise", documents |-> None, metadatas |-> None, distances |-> None],
      [kind |-> "ok", documents |-> None, metadatas |-> None, distances |-> None],
      [kind |-> "ok", documents |-> Some(<< <<>> >>), metadatas |-> Some(<< <<>> >>),
       distances |-> Some(<< <<>> >>)],
      [kind |-> "ok", documents |-> Some(<< <<Doc1>> >>), metadatas |-> Some(<< <<Meta1>> >>),
       distances |-> Some(<< <<250>> >>)],
      [kind |-> "ok", documents |-> Some(<< <<Doc1, Doc2>> >>),
       metadatas |-> Some(<< <<Meta1, Meta2>> >>), distances |-> Some(<< <<250, 1004>> >>)],
      [kind |-> "ok", documents |-> Some(<< <<Doc1>> >>), metadatas |-> Some(<< <<Meta1>> >>),
       distances |-> None] }

EmptyResult == [documents |-> <<>>, metadatas |-> <<>>, distances |-> <<>>, count |-> 0]

\* results[field][0] if results[field] else []
FirstOrEmpty(field) == IF Truthy(field) THEN field.val[1] ELSE <<>>

\* KnowledgeBase.search, given what collection.query did
search(outcome) ==
    IF outcome.kind = "raise"
    THEN EmptyResult
    ELSE [documents |-> FirstOrEmpty(outcome.documents),
          metadatas |-> FirstOrEmpty(outcome.metadatas),
          distances |-> FirstOrEmpty(outcome.distances),
          count     |-> Len(FirstOrEmpty(outcome.documents))]

\* dict.get(key, default)
Get(m, key, default) == IF key \in DOMAIN m THEN m[key] ELSE default

TwoDigits(n) == IF n < 10 THEN "0" \o ToString(n) ELSE ToString(n)

\* the hundredths that .2f prints for the magnitude a, given in thousandths:
\* the nearest hundredth (a tie is written here as ties-to-even; the distances of
\* the model produce none)
Hundredths(a) ==
    LET down == a \div 10
        rest == a % 10
    IN  IF rest > 5 \/ (rest = 5 /\ down % 2 = 1) THEN down + 1 ELSE down

\* a decimal numeral of two places: its sign and its hundredths
Numeral(neg, h) == [neg |-> neg, h |-> h]

\* the text of a numeral; the sign is printed even when the hundredths are zero
NumeralText(n) ==
    (IF n.neg THEN "-" ELSE "") \o ToString(n.h \div 100) \o "." \o TwoDigits(n.h % 100)

\* the numeral .2f prints for x, given in thousandths, clamping x into [0, 1]
Rounded2_clamped(milli) ==
    Numeral(FALSE, Hundredths(IF milli < 0 THEN 0 ELSE IF milli > 1000 THEN 1000 ELSE milli))

\* the numeral .2f prints for x, given in thousandths
Rounded2(milli) == Numeral(milli < 0, Hundredths(IF milli < 0 THEN 0 - milli ELSE milli))

\* f"{x:.2f}" of x given in thousandths
Fmt2f(milli) == NumeralText(Rounded2(milli))

\* SourceBlock numbering the sources from 0
SourceBlock_zeroBased(i, metadata, distance) ==
    << "\n[Source " \o ToString(i - 1) \o " - Relevance: " \o Fmt2f(1000 - distance) \o "]",
       "Category: " \o Get(metadata, "category", "N/A"),
       "Q: " \o Get(metadata, "question", "N/A"),
       "A: " \o Get(metadata, "answer", "N/A") >>

\* the four lines format_context emits for the i-th source
SourceBlock(i, metadata, distance) ==
    << "\n[Source " \o ToString(i) \o " - Relevance: " \o Fmt2f(1000 - distance) \o "]",
       "Category: " \o Get(metadata, "category", "N/A"),
       "Q: " \o Get(metadata, "question", "N/A"),
       "A: " \o Get(metadata, "answer", "N/A") >>

RECURSIVE SourceBlocks(_, _)
\* the blocks of sources 1..n, in order
SourceBlocks(sr, n) ==
    IF n = 0 THEN <<>>
    ELSE SourceBlocks(sr, n - 1) \o SourceBlock(n, sr.metadatas[n], sr.distances[n])

\* KnowledgeBase.format_context; zip() stops at the shortest of the three lists
format_context(sr) ==
    IF sr.count = 0
    THEN NO_INFO_SENTINEL
    ELSE <<CONTEXT_HEADER>>
         \o SourceBlocks(sr, Min(Len(sr.documents), Min(Len(sr.metadatas), Len(sr.distances))))

----------------------------------------------------------------------------
(* ResponseGenerator *)

\* BuildMessages with the grounding message placed ahead of the history window
BuildMessages_groundingFirst(prompt, history, maxh, context, include_history, user_query) ==
    <<Msg("system", prompt)>>
    \o (IF Truthy(context)
        THEN <<Msg("system", CONTEXT_PREFIX \o context.val \o CONTEXT_SUFFIX)>>
        ELSE <<>>)
    \o (IF include_history /\ history # <<>> THEN PySliceFrom(history, 0 - (maxh * 2)) ELSE <<>>)
    \o <<Msg("user", user_query)>>

\* generate_response, lines 66-85: the message list handed to the model
BuildMessages(prompt, history, maxh, context, include_history, user_query) ==
    <<Msg("system", prompt)>>
    \o (IF include_history /\ history # <<>> THEN PySliceFrom(history, 0 - (maxh * 2)) ELSE <<>>)
    \o (IF Truthy(context)
        THEN <<Msg("system", CONTEXT_PREFIX \o context.val \o CONTEXT_SUFFIX)>>
        ELSE <<>>)
    \o <<Msg("user", user_query)>>

\* ExtractResponse with an absent content mapped to the empty string
ExtractResponse_emptyString(outcome) ==
    IF outcome.kind = "absent" THEN <<>> ELSE Strip(outcome.content)

\* generate_response, lines 99-103: the text extracted from a completion
ExtractResponse(outcome) ==
    IF outcome.kind = "absent" THEN EMPTY_COMPLETION_FALLBACK ELSE Strip(outcome.content)

\* generate_response, line 111: the apology returned when the try block raised
ErrorMessage(outcome) == <<ERROR_PREFIX>> \o outcome.reason

\* ReturnValue returning the completion's content as it came, unstripped
ReturnValue_raw(outcome) ==
    IF outcome.kind = "raise" THEN ErrorMessage(outcome)
    ELSE IF outcome.kind = "absent" THEN EMPTY_COMPLETION_FALLBACK ELSE outcome.content

\* generate_response, lines 108 and 113: the value returned to the caller
ReturnValue(outcome) ==
    IF outcome.kind = "raise" THEN ErrorMessage(outcome) ELSE ExtractResponse(outcome)

\* add_to_history trimming to one turn more than the bound
add_to_history_offByOne(history, maxh, user_message, assistant_message) ==
    LET h == Append(Append(history, Msg("user", user_message)),
                    Msg("assistant", assistant_message))
    IN  IF Len(h) > maxh * 2 THEN PySliceFrom(h, 0 - (maxh * 2 + 1)) ELSE h

\* ResponseGenerator.add_to_history
add_to_history(history, maxh, user_message, assistant_message) ==
    LET h == Append(Append(history, Msg("user", user_message)),
                    Msg("assistant", assistant_message))
    IN  IF Len(h) > maxh * 2 THEN PySliceFrom(h, 0 - (maxh * 2)) ELSE h

\* HistoryAfter with the failed exchange appended too
HistoryAfter_appendsOnFailure(history, maxh, user_query, outcome) ==
    add_to_history(history, maxh, user_query, ReturnValue(outcome))

\* generate_response, lines 105-106 and 110-113: the history once the call is
\* over; the except branch leaves it alone
HistoryAfter(history, maxh, user_query, outcome) ==
    IF outcome.kind = "raise"
    THEN history
    ELSE add_to_history(history, maxh, user_query, ExtractResponse(outcome))

----------------------------------------------------------------------------
(* TTSService, as the request path sees it *)

\* how the text_to_speech call of a handler ends: it returns the path of the
\* file written, it returns None (the model is not loaded, lines 73-75, or
\* something in its try block raised, lines 122-124), or the call itself raises
\* (what the except clause of process_query, lines 133-134, is there for)
TTSOutcomes == {"path", "none", "raise"}

AUDIO_PATH == "audio_responses/response.wav"

text_to_speech(outcome) == IF outcome = "path" THEN Some(AUDIO_PATH) ELSE None

----------------------------------------------------------------------------
(* Frames of the handlers *)

NoFrame ==
    [op |-> "none", user_query |-> <<>>, enable_audio |-> FALSE,
     search_error |-> FALSE, search_results |-> EmptyResult, context |-> None,
     response |-> None, tts_outcome |-> "not_run", audio_path |-> None, status |-> "none",
     cleared |-> 0, new_prompt |-> <<>>]

\* no completion yet
Pending == [kind |-> "pending", content |-> <<>>, reason |-> <<>>]

NoCall ==
    [user_query |-> <<>>, context |-> None, include_history |-> TRUE,
     messages |-> <<>>, invocations |-> 0, response |-> Pending, ret |-> None]

\* generate_response up to the create() call: the arguments and the messages built
EnterGenerate(user_query, context, include_history) ==
    [user_query |-> user_query, context |-> context, include_history |-> include_history,
     messages |-> BuildMessages(system_prompt, conversation_history, max_history,
                                context, include_history, user_query),
     invocations |-> 0, response |-> Pending, ret |-> None]

\* RequestContext passing the formatted context whatever the count
RequestContext_always(sr) == Some(format_context(sr))

\* the context argument the request path passes to generate_response
\* (chatbot.py line 118, web_app.py line 71)
RequestContext(sr) == IF sr.count > 0 THEN Some(format_context(sr)) ELSE None

\* process_query, lines 105-106: the display loop indexes distances by the first
\* two metadatas and raises IndexError when distances is shorter
DisplayRaises(sr) == sr.count > 0 /\ Len(sr.distances) < Len(PySliceTo(sr.metadatas, 2))

\* no KnowledgeBase operation called on its own yet
NoKB == [op |-> "none"]

\* TTSService.__init__ with the model loaded, no operation called on its own yet
NoTTS == [op |-> "none", loaded |-> TRUE]

\* the request threads of the web front end
Workers == {"w1", "w2"}

\* a request thread that is not in a chat request
NoThread ==
    [pc |-> "idle", user_query |-> <<>>, messages |-> <<>>,
     assistant_response |-> <<>>, sliced |-> <<>>, status |-> "none", clear_seen |-> "none"]

\* web_app at import: no request yet, no POST /api/clear yet
NoWeb == [th |-> [w \in Workers |-> NoThread], clears |-> 0, calls |-> 0,
          touched |-> {}]

\* ResponseGenerator.__init__ and Chatbot.__init__.  max_history is read from
\* config.MAX_HISTORY_TURNS (10 as shipped); the model takes it as the
\* configuration parameter it is, over every count of pairs from 0 to MaxM, so
\* that eviction happens within MaxAppends appends.
Init ==
    /\ max_history \in 0..MaxM
    /\ system_prompt = DEFAULT_SYSTEM_PROMPT
    /\ conversation_history = <<>>
    /\ enable_tts \in BOOLEAN
    /\ pc = "idle"
    /\ req = NoFrame
    /\ gr = NoCall
    /\ log = <<>>
    /\ collection = <<>>
    /\ kb = NoKB
    /\ tts = NoTTS
    /\ web = NoWeb

\* a direct call of add_to_history (tests/test_chatbot.py)
AddToHistory(user_message, assistant_message) ==
    /\ pc = "idle"
    /\ Len(log) < MaxAppends
    /\ conversation_history' =
           add_to_history(conversation_history, max_history, user_message, assistant_message)
    /\ log' = Append(log, <<user_message, assistant_message>>)
    /\ req' = NoFrame
    /\ gr' = NoCall
    /\ UNCHANGED <<kbvars, web, max_history, system_prompt, enable_tts, pc>>

\* clear_history dropping the oldest exchange only
clear_history_dropsOldest(history) == PySliceFrom(history, 2)

\* ResponseGenerator.clear_history: self.conversation_history = []
clear_history(history) == <<>>

\* a call of ResponseGenerator.clear_history (Chatbot._clear_history, POST
\* /api/clear); the frame notes how many turns the history held
ClearHistory ==
    /\ pc = "idle"
    /\ conversation_history' = clear_history(conversation_history)
    /\ log' = <<>>
    /\ req' = [NoFrame EXCEPT !.op = "clear_history", !.cleared = Len(conversation_history)]
    /\ gr' = NoCall
    /\ UNCHANGED <<kbvars, web, max_history, system_prompt, enable_tts, pc>>

\* SetSystemPrompt starting a new conversation as well
SetSystemPrompt_clearsHistory(new_prompt) ==
    /\ pc = "idle"
    /\ system_prompt' = new_prompt
    /\ conversation_history' = <<>>
    /\ req' = [NoFrame EXCEPT !.op = "set_system_prompt", !.new_prompt = new_prompt]
    /\ UNCHANGED <<kbvars, web, max_history, enable_tts, pc, gr, log>>

\* ResponseGenerator.set_system_prompt; the frame of the last generate_response
\* call stays as that call left it
SetSystemPrompt(new_prompt) ==
    /\ pc = "idle"
    /\ system_prompt' = new_prompt
    /\ req' = [NoFrame EXCEPT !.op = "set_system_prompt", !.new_prompt = new_prompt]
    /\ UNCHANGED <<kbvars, web, max_history, conversation_history, enable_tts, pc, gr, log>>

\* a direct call of generate_response, up to the create() call
GenerateResponseCall(user_query, context, include_history) ==
    /\ pc = "idle"
    /\ Len(log) < MaxAppends
    /\ req' = [NoFrame EXCEPT !.op = "generate_response", !.status = "running"]
    /\ gr' = EnterGenerate(user_query, context, include_history)
    /\ pc' = "llm"
    /\ UNCHANGED <<kbvars, web, max_history, system_prompt, conversation_history, enable_tts, log>>

\* ProcessQueryCall entering generate_response at once, the search left out
ProcessQueryCall_skipsSearch(user_query, enable_audio) ==
    /\ pc = "idle"
    /\ Len(log) < MaxAppends
    /\ req' = [NoFrame EXCEPT !.op = "process_query", !.user_query = user_query,
                              !.enable_audio = enable_audio, !.status = "running"]
    /\ gr' = EnterGenerate(user_query, None, TRUE)
    /\ pc' = "llm"
    /\ UNCHANGED <<kbvars, web, max_history, system_prompt, conversation_history, enable_tts, log>>

\* Chatbot.process_query, up to the query() call of knowledge_base.search
ProcessQueryCall(user_query, enable_audio) ==
    /\ pc = "idle"
    /\ Len(log) < MaxAppends
    /\ req' = [NoFrame EXCEPT !.op = "process_query", !.user_query = user_query,
                              !.enable_audio = enable_audio, !.status = "running"]
    /\ gr' = NoCall
    /\ pc' = "search"
    /\ UNCHANGED <<kbvars, web, max_history, system_prompt, conversation_history, enable_tts, log>>

\* web_app.chat, up to the query() call of knowledge_base.search; an empty
\* message is answered 400 at once
ChatCall(message, enable_audio) ==
    /\ pc = "idle"
    /\ Len(log) < MaxAppends
    /\ gr' = NoCall
    /\ IF Strip(message) = <<>>
       THEN /\ req' = [NoFrame EXCEPT !.op = "chat", !.status = "400"]
            /\ pc' = "idle"
       ELSE /\ req' = [NoFrame EXCEPT !.op = "chat", !.user_query = Strip(message),
                                      !.enable_audio = enable_audio, !.status = "running"]
            /\ pc' = "search"
    /\ UNCHANGED <<kbvars, web, max_history, system_prompt, conversation_history, enable_tts, log>>

\* SearchReturn with no try/except in search: the exception of query() leaves
\* search and the handler
SearchReturn_propagates(outcome) ==
    /\ pc = "search"
    /\ LET sr      == search(outcome)
           context == RequestContext(sr)
       IN  IF outcome.kind = "raise" \/ (req.op = "process_query" /\ DisplayRaises(sr))
           THEN /\ req' = [req EXCEPT !.search_error = (outcome.kind = "raise"),
                                      !.search_results = sr, !.status = "raised"]
                /\ gr' = gr
                /\ pc' = "idle"
           ELSE /\ req' = [req EXCEPT !.search_results = sr,
                                      !.context = IF req.op = "process_query"
                                                  THEN Some(format_context(sr))
                                                  ELSE context]
                /\ gr' = EnterGenerate(req.user_query, context, TRUE)
                /\ pc' = "llm"
    /\ UNCHANGED <<kbvars, web, max_history, system_prompt, conversation_history, enable_tts, log>>

\* query() returns or raises: search builds its result (the empty one when query()
\* raised, lines 151-153), the handler formats the context and enters
\* generate_response, up to the create() call
SearchReturn(outcome) ==
    /\ pc = "search"
    /\ LET sr      == search(outcome)
           context == RequestContext(sr)
       IN  IF req.op = "process_query" /\ DisplayRaises(sr)
           THEN /\ req' = [req EXCEPT !.search_error = (outcome.kind = "raise"),
                                      !.search_results = sr, !.status = "raised"]
                /\ gr' = gr
                /\ pc' = "idle"
           ELSE /\ req' = [req EXCEPT !.search_error = (outcome.kind = "raise"),
                                      !.search_results = sr,
                                      !.context = IF req.op = "process_query"
                                                  THEN Some(format_context(sr))
                                                  ELSE context]
                /\ gr' = EnterGenerate(req.user_query, context, TRUE)
                /\ pc' = "llm"
    /\ UNCHANGED <<kbvars, web, max_history, system_prompt, conversation_history, enable_tts, log>>

\* whether the handler goes on to text_to_speech once generate_response returned
WantsAudio ==
    \/ req.op = "process_query" /\ enable_tts /\ req.enable_audio
    \/ req.op = "chat" /\ req.enable_audio

\* GenerateReturns with an empty completion left out of the history, like a
\* failed call
GenerateReturns_dropsEmpty(outcome) ==
    /\ LET text == ReturnValue(outcome)
       IN  /\ gr' = [gr EXCEPT !.invocations = @ + 1, !.response = outcome, !.ret = Some(text)]
           /\ conversation_history' =
                  IF outcome.kind = "absent" THEN conversation_history
                  ELSE HistoryAfter(conversation_history, max_history, gr.user_query, outcome)
           /\ log' = IF outcome.kind \in {"raise", "absent"}
                     THEN log
                     ELSE Append(log, <<gr.user_query, ExtractResponse(outcome)>>)
           /\ IF req.op = "generate_response"
              THEN /\ req' = [req EXCEPT !.status = "ok"]
                   /\ pc' = "idle"
              ELSE /\ req' = [req EXCEPT !.response = Some(text),
                                         !.status = IF WantsAudio THEN "running" ELSE "ok"]
                   /\ pc' = IF WantsAudio THEN "tts" ELSE "idle"
    /\ UNCHANGED <<kbvars, web, max_history, system_prompt, enable_tts>>

\* generate_response from the return of create() on (lines 98-113), and the
\* handler that called it up to the text_to_speech call or to its return
GenerateReturns(outcome) ==
    /\ LET text == ReturnValue(outcome)
       IN  /\ gr' = [gr EXCEPT !.invocations = @ + 1, !.response = outcome, !.ret = Some(text)]
           /\ conversation_history' =
                  HistoryAfter(conversation_history, max_history, gr.user_query, outcome)
           /\ log' = IF outcome.kind = "raise"
                     THEN log
                     ELSE Append(log, <<gr.user_query, ExtractResponse(outcome)>>)
           /\ IF req.op = "generate_response"
              THEN /\ req' = [req EXCEPT !.status = "ok"]
                   /\ pc' = "idle"
              ELSE /\ req' = [req EXCEPT !.response = Some(text),
                                         !.status = IF WantsAudio THEN "running" ELSE "ok"]
                   /\ pc' = IF WantsAudio THEN "tts" ELSE "idle"
    /\ UNCHANGED <<kbvars, web, max_history, system_prompt, enable_tts>>

\* LLMReturn with one more create() call after the first one raised
LLMReturn_retry(outcome) ==
    /\ pc = "llm"
    /\ IF outcome.kind = "raise" /\ gr.invocations = 0
       THEN /\ gr' = [gr EXCEPT !.invocations = @ + 1]
            /\ UNCHANGED <<kbvars, web, max_history, system_prompt, conversation_history, enable_tts,
                           pc, req, log>>
       ELSE GenerateReturns(outcome)

\* create() returns or raises, once: generate_response extracts the text, appends
\* the pair and returns, or returns the apology
LLMReturn(outcome) ==
    /\ pc = "llm"
    /\ GenerateReturns(outcome)

\* TTSReturn with no try/except around the text_to_speech call of process_query
TTSReturn_noTry(outcome) ==
    /\ pc = "tts"
    /\ req' = IF outcome = "raise"
              THEN [req EXCEPT !.tts_outcome = outcome,
                               !.status = IF req.op = "process_query" THEN "raised" ELSE "500"]
              ELSE [req EXCEPT !.tts_outcome = outcome,
                               !.audio_path = text_to_speech(outcome), !.status = "ok"]
    /\ pc' = "idle"
    /\ UNCHANGED <<kbvars, web, max_history, system_prompt, conversation_history, enable_tts, gr, log>>

\* the text_to_speech call ends.  process_query keeps audio_path = None when it
\* raised (lines 122, 133-134) and returns its result; chat has the call under
\* its outer try only and answers 500 when it raised (lines 100-102)
TTSReturn(outcome) ==
    /\ pc = "tts"
    /\ req' = IF outcome = "raise"
              THEN [req EXCEPT !.tts_outcome = outcome,
                               !.status = IF req.op = "process_query" THEN "ok" ELSE "500"]
              ELSE [req EXCEPT !.tts_outcome = outcome,
                               !.audio_path = text_to_speech(outcome), !.status = "ok"]
    /\ pc' = "idle"
    /\ UNCHANGED <<kbvars, web, max_history, system_prompt, conversation_history, enable_tts, gr, log>>

Next ==
    \/ \E u \in Queries, a \in AssistantMessages : AddToHistory(u, a)
    \/ ClearHistory
    \/ \E p \in Prompts : SetSystemPrompt(p)
    \/ \E q \in Queries, c \in Contexts, i \in BOOLEAN : GenerateResponseCall(q, c, i)
    \/ \E q \in Queries, a \in BOOLEAN : ProcessQueryCall(q, a)
    \/ \E m \in WebMessages, a \in BOOLEAN : ChatCall(m, a)
    \/ \E o \in QueryOutcomes : SearchReturn(o)
    \/ \E o \in LLMOutcomes : LLMReturn(o)
    \/ \E o \in TTSOutcomes : TTSReturn(o)

Spec == Init /\ [][Next]_vars

----------------------------------------------------------------------------
(* KnowledgeBase on its own: the store, ingestion, search *)

\* most documents a direct add_document grows the store to
MaxDocs == 3

\* largest explicit top_k of a search
MaxTopK == 2

\* entries of a faqs.json batch
Faq1 == [id |-> "faq_1", question |-> "Q1", answer |-> "A1", category |-> "billing"]

Faq2 == [id |-> "faq_2", question |-> "Q2", answer |-> "A2", category |-> "account"]

\* an entry with the id of Faq1
Faq1Again == [id |-> "faq_1", question |-> "Q3", answer |-> "A3", category |-> "account"]

\* an entry without an id
FaqNoId == [question |-> "Q4", answer |-> "A4", category |-> "billing"]

Batches ==
    { <<>>, <<Faq1>>, <<Faq1, Faq2>>, <<Faq1, Faq1Again>>, <<Faq1, FaqNoId>>, <<FaqNoId, Faq2>> }

\* what open() and json.load() of the file give
FileOutcomes ==
    { [kind |-> "missing", faqs |-> <<>>], [kind |-> "malformed", faqs |-> <<>>] }
        \cup { [kind |-> "faqs", faqs |-> b] : b \in Batches }

\* what the user types at the reload prompt, character by character
Answers == { <<"y">>, <<" ", "Y", "\n">>, <<"n">>, <<>>, <<"y", "e", "s">> }

\* str.lower() of one character
Lower(c) == IF c = "Y" THEN "y" ELSE IF c = "N" THEN "n" ELSE c

\* input(...).strip().lower()
PromptResponse(answer) == [i \in 1..Len(Strip(answer)) |-> Lower(Strip(answer)[i])]

\* the keys the preparation loop reads of an entry; a missing one raises KeyError
FaqKeys == {"question", "answer", "category", "id"}

\* what the preparation loop appends for one entry
Prepare(faq) ==
    [id       |-> faq.id,
     document |-> "Question: " \o faq.question \o "\nAnswer: " \o faq.answer,
     metadata |-> [question |-> faq.question, answer |-> faq.answer,
                   category |-> faq.category, source |-> "faqs.json"]]

Ids(entries) == {entries[i].id : i \in 1..Len(entries)}

DuplicateIds(entries) ==
    \E i, j \in 1..Len(entries) : i < j /\ entries[i].id = entries[j].id

\* collection.add of the store collaborator: it raises on an empty batch, on two
\* equal ids in the batch, or for a reason of its own (outcome); it skips an entry
\* whose id the collection already holds
collection_add(store, entries, outcome) ==
    IF outcome = "raise" \/ entries = <<>> \/ DuplicateIds(entries)
    THEN [raised |-> TRUE, store |-> store]
    ELSE [raised |-> FALSE,
          store  |-> store \o SelectSeq(entries, LAMBDA e : e.id \notin Ids(store))]

\* KnowledgeBase.reset_collection: delete and recreate; an exception of the
\* client is printed and swallowed, the collection is then as it was
reset_collection(store, outcome) == IF outcome = "ok" THEN <<>> ELSE store

\* load_faqs_from_json reloading over a non-empty store whatever was answered
load_faqs_from_json_implicitReset(store, file, skip_prompt, answer, reset_outcome, add_outcome) ==
    IF file.kind # "faqs"
    THEN [collection |-> store, ret |-> 0, asked |-> FALSE]
    ELSE IF Len(store) > 0 /\ skip_prompt
    THEN [collection |-> store, ret |-> Len(store), asked |-> FALSE]
    ELSE LET emptied == IF Len(store) > 0 THEN reset_collection(store, reset_outcome)
                        ELSE store
         IN  IF \E i \in 1..Len(file.faqs) : ~(FaqKeys \subseteq DOMAIN file.faqs[i])
             THEN [collection |-> emptied, ret |-> 0, asked |-> Len(store) > 0]
             ELSE LET prepared == [i \in 1..Len(file.faqs) |-> Prepare(file.faqs[i])]
                      added    == collection_add(emptied, prepared, add_outcome)
                  IN  IF added.raised
                      THEN [collection |-> emptied, ret |-> 0, asked |-> Len(store) > 0]
                      ELSE [collection |-> added.store, ret |-> Len(file.faqs),
                            asked |-> Len(store) > 0]

\* KnowledgeBase.load_faqs_from_json: the store it leaves and the value it
\* returns; asked tells whether the reload prompt was shown
load_faqs_from_json(store, file, skip_prompt, answer, reset_outcome, add_outcome) ==
    IF file.kind # "faqs"
    THEN [collection |-> store, ret |-> 0, asked |-> FALSE]
    ELSE IF Len(store) > 0 /\ skip_prompt
    THEN [collection |-> store, ret |-> Len(store), asked |-> FALSE]
    ELSE IF Len(store) > 0 /\ PromptResponse(answer) # <<"y">>
    THEN [collection |-> store, ret |-> Len(store), asked |-> TRUE]
    ELSE LET emptied == IF Len(store) > 0 THEN reset_collection(store, reset_outcome)
                        ELSE store
         IN  IF \E i \in 1..Len(file.faqs) : ~(FaqKeys \subseteq DOMAIN file.faqs[i])
             THEN [collection |-> emptied, ret |-> 0, asked |-> Len(store) > 0]
             ELSE LET prepared == [i \in 1..Len(file.faqs) |-> Prepare(file.faqs[i])]
                      added    == collection_add(emptied, prepared, add_outcome)
                  IN  IF added.raised
                      THEN [collection |-> emptied, ret |-> 0, asked |-> Len(store) > 0]
                      ELSE [collection |-> added.store, ret |-> Len(file.faqs),
                            asked |-> Len(store) > 0]

\* distances (thousandths) the embedding space gives between a query and a document
Distances == {254, 1500}

RECURSIVE Ranked(_, _)
\* the documents idx of the collection, closest first under the distances d
Ranked(idx, d) ==
    IF idx = {} THEN <<>>
    ELSE LET i == CHOOSE i \in idx : \A j \in idx : d[i] < d[j] \/ (d[i] = d[j] /\ i <= j)
         IN  <<i>> \o Ranked(idx \ {i}, d)

\* collection.query of the store collaborator for one query text: the n_results
\* nearest documents, closest first, or an exception
collection_query(store, n_results, d, outcome) ==
    IF outcome = "raise"
    THEN [kind |-> "raise", documents |-> None, metadatas |-> None, distances |-> None]
    ELSE LET hits == PySliceTo(Ranked(1..Len(store), d), n_results)
         IN  [kind      |-> "ok",
              documents |-> Some(<< [i \in 1..Len(hits) |-> store[hits[i]].document] >>),
              metadatas |-> Some(<< [i \in 1..Len(hits) |-> store[hits[i]].metadata] >>),
              distances |-> Some(<< [i \in 1..Len(hits) |-> d[hits[i]]] >>)]

\* NResults asking for the configured number whatever top_k is
NResults_ignoresTopK(top_k) == TOP_K_RESULTS

\* the n_results that search passes to query(): top_k, or config.TOP_K_RESULTS
\* when top_k is None
NResults(top_k) == IF IsNone(top_k) THEN TOP_K_RESULTS ELSE top_k.val

TopKs == {None} \cup {Some(k) : k \in 1..MaxTopK}

\* contents the persistent collection may hold when the KnowledgeBase is built
InitialStores == { <<>>, <<Prepare(Faq1)>>, <<Prepare(Faq2), Prepare(Faq1)>> }

\* arguments of a direct add_document
DocIds == {None, Some("faq_1")}

\* KnowledgeBase.__init__ over a persistent collection; the conversational
\* pipeline stands still
InitKB ==
    /\ max_history = 1
    /\ system_prompt = DEFAULT_SYSTEM_PROMPT
    /\ conversation_history = <<>>
    /\ enable_tts = TRUE
    /\ pc = "idle"
    /\ req = NoFrame
    /\ gr = NoCall
    /\ log = <<>>
    /\ collection \in InitialStores
    /\ kb = NoKB
    /\ tts = NoTTS
    /\ web = NoWeb

\* whether load_faqs_from_json shows the reload prompt (lines 72-78)
Asks(store, file, skip_prompt) == file.kind = "faqs" /\ Len(store) > 0 /\ ~skip_prompt

\* KnowledgeBase.load_faqs_from_json
LoadFaqs(file, skip_prompt, answer, reset_outcome, add_outcome) ==
    LET r == load_faqs_from_json(collection, file, skip_prompt, answer,
                                 reset_outcome, add_outcome)
    IN  /\ collection' = r.collection
        /\ kb' = [op |-> "load_faqs", file |-> file, skip_prompt |-> skip_prompt,
                  answer |-> IF r.asked THEN Some(answer) ELSE None,
                  before |-> collection, ret |-> r.ret]
        /\ UNCHANGED <<rgvars, web, tts>>

\* KnowledgeBase.add_document; the id is made up when none is given
AddDocument(metadata, doc_id, add_outcome) ==
    /\ Len(collection) < MaxDocs
    /\ LET id    == IF IsNone(doc_id) THEN "doc_" \o ToString(Len(collection) + 1)
                    ELSE doc_id.val
           entry == [id |-> id, document |-> "Question: " \o metadata.question,
                     metadata |-> metadata]
           added == collection_add(collection, <<entry>>, add_outcome)
       IN  /\ collection' = added.store
           /\ kb' = [op |-> "add_document", before |-> collection,
                     ret |-> IF added.raised THEN None ELSE Some(id)]
    /\ UNCHANGED <<rgvars, web, tts>>

\* KnowledgeBase.search called on its own
Search(top_k, d, outcome) ==
    /\ kb' = [op |-> "search", top_k |-> top_k, raised |-> (outcome = "raise"),
              result |-> search(collection_query(collection, NResults(top_k), d, outcome))]
    /\ UNCHANGED <<rgvars, web, collection, tts>>

\* KnowledgeBase.format_context of the result of the last search
FormatContext ==
    /\ kb.op = "search"
    /\ kb' = [op |-> "format_context", result |-> kb.result,
              context |-> format_context(kb.result)]
    /\ UNCHANGED <<rgvars, web, collection, tts>>

\* KnowledgeBase.get_all_documents: the listing of the store, empty when
\* collection.get() raises
get_all_documents(store, outcome) ==
    IF outcome = "raise"
    THEN [ids |-> <<>>, documents |-> <<>>, metadatas |-> <<>>, count |-> 0]
    ELSE [ids |-> [i \in 1..Len(store) |-> store[i].id],
          documents |-> [i \in 1..Len(store) |-> store[i].document],
          metadatas |-> [i \in 1..Len(store) |-> store[i].metadata],
          count |-> Len(store)]

\* CategoryOf with the default of format_context
CategoryOf_na(metadata) == Get(metadata, "category", "N/A")

\* the category a metadata is counted under (line 224)
CategoryOf(metadata) == Get(metadata, "category", "unknown")

\* the loop of get_stats (lines 222-225): category -> number of metadatas
Histogram(metadatas) ==
    [c \in {CategoryOf(metadatas[i]) : i \in 1..Len(metadatas)} |->
        Cardinality({i \in 1..Len(metadatas) : CategoryOf(metadatas[i]) = c})]

\* KnowledgeBase.get_stats; outcome is what collection.get() does
get_stats(store, outcome) ==
    LET count == Len(store)
    IN  [total_documents |-> count,
         categories |-> IF count > 0
                        THEN Some(Histogram(get_all_documents(store, outcome).metadatas))
                        ELSE None]

\* KnowledgeBase.get_stats called on its own
GetStats(outcome) ==
    /\ kb' = [op |-> "get_stats", before |-> collection, get_raised |-> (outcome = "raise"),
              stats |-> get_stats(collection, outcome)]
    /\ UNCHANGED <<rgvars, web, collection, tts>>

NextKB ==
    \/ \E f \in FileOutcomes, sp \in BOOLEAN, ao \in {"ok", "raise"} :
          \E a \in IF Asks(collection, f, sp) THEN Answers ELSE {<<>>} :
              \E ro \in IF Asks(collection, f, sp) /\ PromptResponse(a) = <<"y">>
                         THEN {"ok", "raise"} ELSE {"ok"} : LoadFaqs(f, sp, a, ro, ao)
    \/ \E id \in DocIds, ao \in {"ok", "raise"} : AddDocument(Meta2, id, ao)
    \/ \E k \in TopKs, o \in {"ok", "raise"} :
          \E d \in IF o = "ok" THEN [1..Len(collection) -> Distances]
                    ELSE {[i \in 1..Len(collection) |-> 254]} : Search(k, d, o)
    \/ FormatContext
    \/ \E o \in IF Len(collection) > 0 THEN {"ok", "raise"} ELSE {"ok"} : GetStats(o)

SpecKB == InitKB /\ [][NextKB]_vars

----------------------------------------------------------------------------
(* TTSService on its own: text_to_speech and batch_convert *)

\* the length above which text_to_speech truncates (line 79)
TTS_MAX_CHARS == 500

\* the characters text_to_speech keeps of a longer text (line 81)
TTS_KEPT_CHARS == 497

\* how many characters beyond TTS_MAX_CHARS the longest text of the model has
MaxOver == 2

\* most texts in one batch_convert call
MaxBatch == 3

\* a text of n characters, as the sequence of its characters
TextOfLen(n) == [i \in 1..n |-> IF i % 3 = 0 THEN "c" ELSE IF i % 3 = 1 THEN "a" ELSE "b"]

\* lengths of the texts handed to text_to_speech: empty, short, around the limits
TextLens ==
    {0, 1, TTS_KEPT_CHARS, TTS_MAX_CHARS - 1, TTS_MAX_CHARS}
        \cup {TTS_MAX_CHARS + k : k \in 1..MaxOver}

ELLIPSIS == <<".", ".", ".">>

\* Truncate keeping TTS_MAX_CHARS characters before the marker
Truncate_keepsMax(text) ==
    IF Len(text) > TTS_MAX_CHARS THEN PySliceTo(text, TTS_MAX_CHARS) \o ELLIPSIS ELSE text

\* text_to_speech, lines 79-81: text[:497] + "..." when len(text) > 500
Truncate(text) ==
    IF Len(text) > TTS_MAX_CHARS THEN PySliceTo(text, TTS_KEPT_CHARS) \o ELLIPSIS ELSE text

\* config.AUDIO_OUTPUT_PATH, as Path prints it
AUDIO_OUTPUT_PATH == "audio_responses"

\* Path(config.AUDIO_OUTPUT_PATH) / output_filename
OutputPath(output_filename) == AUDIO_OUTPUT_PATH \o "/" \o output_filename

\* f"{prefix}_{i}.wav" of batch_convert
BatchFilename(prefix, i) == prefix \o "_" \o ToString(i) \o ".wav"

\* TTSService.text_to_speech with a filename given: the text it hands to the
\* tokenizer (None when the model is not loaded) and the value it returns; the
\* outcome is that of tokenizer, model and sf.write together
Synthesize(loaded, text, output_filename, outcome) ==
    IF ~loaded
    THEN [handed |-> None, ret |-> None]
    ELSE [handed |-> Some(Truncate(text)),
          ret    |-> IF outcome = "ok" THEN Some(OutputPath(output_filename)) ELSE None]

SynthOutcomes == {"ok", "raise"}

\* truth value of an Optional[str]: None and "" are false
TruthyStr(o) == IF IsNone(o) THEN FALSE ELSE o.val # ""

\* texts of a batch
BatchTexts == {TextOfLen(1), TextOfLen(2)}

RECURSIVE SeqsUpTo(_, _)
\* the sequences over S of length at most n
SeqsUpTo(S, n) ==
    IF n = 0 THEN {<<>>}
    ELSE LET shorter == SeqsUpTo(S, n - 1)
         IN  shorter \cup {Append(q, x) : q \in {r \in shorter : Len(r) = n - 1}, x \in S}

\* TTSService.__init__, the model loaded or not; the rest stands still
InitTTS ==
    /\ max_history = 1
    /\ system_prompt = DEFAULT_SYSTEM_PROMPT
    /\ conversation_history = <<>>
    /\ enable_tts = TRUE
    /\ pc = "idle"
    /\ req = NoFrame
    /\ gr = NoCall
    /\ log = <<>>
    /\ collection = <<>>
    /\ kb = NoKB
    /\ tts \in {NoTTS, [NoTTS EXCEPT !.loaded = FALSE]}
    /\ web = NoWeb

\* no batch_convert call is between two of its text_to_speech calls
TTSIdle == IF tts.op = "batch_convert" THEN tts.done ELSE TRUE

\* a direct text_to_speech call
TextToSpeech(text, outcome) ==
    /\ TTSIdle
    /\ LET r == Synthesize(tts.loaded, text, "out.wav", outcome)
       IN  tts' = [op |-> "text_to_speech", loaded |-> tts.loaded, text |-> text,
                   handed |-> r.handed, ret |-> r.ret]
    /\ UNCHANGED <<rgvars, web, collection, kb>>

\* batch_convert up to the first text_to_speech call; it returns at once on an
\* empty list
BatchConvertCall(texts) ==
    /\ TTSIdle
    /\ tts' = [op |-> "batch_convert", loaded |-> tts.loaded, texts |-> texts,
               attempted |-> <<>>, outcomes |-> <<>>, audio_files |-> <<>>,
               done |-> (texts = <<>>)]
    /\ UNCHANGED <<rgvars, web, collection, kb>>

\* BatchSynthReturn leaving the loop at the first entry that gave no path
BatchSynthReturn_stopsAtFailure(outcome) ==
    /\ tts.op = "batch_convert"
    /\ ~tts.done
    /\ LET i == Len(tts.attempted) + 1
           r == Synthesize(tts.loaded, tts.texts[i], BatchFilename("batch", i), outcome)
       IN  tts' = [tts EXCEPT !.attempted = Append(@, i),
                              !.outcomes = Append(@, outcome),
                              !.audio_files = IF TruthyStr(r.ret) THEN Append(@, r.ret.val) ELSE @,
                              !.done = (i = Len(tts.texts) \/ ~TruthyStr(r.ret))]
    /\ UNCHANGED <<rgvars, web, collection, kb>>

\* one turn of the loop of batch_convert: the text_to_speech call of the next
\* entry ends, its path is appended if it gave one; after the last entry
\* batch_convert returns audio_files
BatchSynthReturn(outcome) ==
    /\ tts.op = "batch_convert"
    /\ ~tts.done
    /\ LET i == Len(tts.attempted) + 1
           r == Synthesize(tts.loaded, tts.texts[i], BatchFilename("batch", i), outcome)
       IN  tts' = [tts EXCEPT !.attempted = Append(@, i),
                              !.outcomes = Append(@, outcome),
                              !.audio_files = IF TruthyStr(r.ret) THEN Append(@, r.ret.val) ELSE @,
                              !.done = (i = Len(tts.texts))]
    /\ UNCHANGED <<rgvars, web, collection, kb>>

NextTTS ==
    \/ \E n \in TextLens, o \in SynthOutcomes : TextToSpeech(TextOfLen(n), o)
    \/ \E texts \in SeqsUpTo(BatchTexts, MaxBatch) : BatchConvertCall(texts)
    \/ \E o \in SynthOutcomes : BatchSynthReturn(o)

SpecTTS == InitTTS /\ [][NextTTS]_vars

----------------------------------------------------------------------------
(* The web front end: chat requests side by side on one ResponseGenerator *)

\* most chat requests the front end serves
MaxWebCalls == 2

\* most POST /api/clear requests
MaxClears == 1

\* the message of the requests thread w serves
WebQuery(w) == IF w = "w1" THEN <<"q1">> ELSE <<"q2">>

\* what create() does with the call of thread w
WebLLMOutcomes(w) ==
    { [kind |-> "text", content |-> IF w = "w1" THEN <<"a1">> ELSE <<"a2">>, reason |-> <<>>],
      [kind |-> "absent", content |-> <<>>, reason |-> <<>>],
      [kind |-> "raise", content |-> <<>>, reason |-> <<"timeout">>] }

\* web_app at import: the module-level response_generator, no request yet
InitWeb ==
    /\ max_history \in 1..MaxM
    /\ system_prompt = DEFAULT_SYSTEM_PROMPT
    /\ conversation_history = <<>>
    /\ enable_tts = TRUE
    /\ pc = "idle"
    /\ req = NoFrame
    /\ gr = NoCall
    /\ log = <<>>
    /\ collection = <<>>
    /\ kb = NoKB
    /\ tts = NoTTS
    /\ web = NoWeb

\* where a thread stands inside add_to_history
InAdd == {"append_user", "append_assistant", "trim", "assign"}

\* chat of thread w up to the create() call of generate_response: the search,
\* the context, the messages built from the prompt and the history as they are
WebChatCall(w, context) ==
    /\ web.th[w].pc = "idle"
    /\ web.calls < MaxWebCalls
    /\ web' = [web EXCEPT !.calls = @ + 1, !.th[w] =
                  [pc |-> "llm", user_query |-> WebQuery(w),
                   messages |-> BuildMessages(system_prompt, conversation_history,
                                              max_history, context, TRUE, WebQuery(w)),
                   assistant_response |-> <<>>, sliced |-> <<>>, status |-> "running",
                   clear_seen |-> "none"]]
    /\ UNCHANGED <<kbvars, max_history, system_prompt, conversation_history, enable_tts,
                   pc, req, gr, log>>

\* create() of thread w returns or raises (lines 98-103, 110-113): on an
\* exception generate_response returns the apology and chat answers
WebLLMReturn(w, outcome) ==
    /\ web.th[w].pc = "llm"
    /\ web' = [web EXCEPT !.th[w] =
                  IF outcome.kind = "raise"
                  THEN [@ EXCEPT !.pc = "idle", !.status = "error"]
                  ELSE [@ EXCEPT !.pc = "append_user",
                                 !.assistant_response = ExtractResponse(outcome)]]
    /\ UNCHANGED <<kbvars, max_history, system_prompt, conversation_history, enable_tts,
                   pc, req, gr, log>>

\* add_to_history, line 123
WebAppendUser(w) ==
    /\ web.th[w].pc = "append_user"
    /\ conversation_history' = Append(conversation_history, Msg("user", web.th[w].user_query))
    /\ web' = [web EXCEPT !.th[w].pc = "append_assistant", !.touched = @ \cup {w}]
    /\ UNCHANGED <<kbvars, max_history, system_prompt, enable_tts, pc, req, gr, log>>

\* add_to_history, line 124
WebAppendAssistant(w) ==
    /\ web.th[w].pc = "append_assistant"
    /\ conversation_history' =
           Append(conversation_history, Msg("assistant", web.th[w].assistant_response))
    /\ log' = Append(log, <<web.th[w].user_query, web.th[w].assistant_response>>)
    /\ web' = [web EXCEPT !.th[w].pc = "trim", !.touched = @ \cup {w}]
    /\ UNCHANGED <<kbvars, max_history, system_prompt, enable_tts, pc, req, gr>>

\* add_to_history, lines 127-128 up to the assignment: the length test and the
\* slice; without a trim add_to_history and generate_response return and chat
\* answers
WebTrimRead(w) ==
    /\ web.th[w].pc = "trim"
    /\ web' = [web EXCEPT !.th[w] =
                  IF Len(conversation_history) > max_history * 2
                  THEN [@ EXCEPT !.pc = "assign",
                                 !.sliced = PySliceFrom(conversation_history,
                                                        0 - (max_history * 2))]
                  ELSE [@ EXCEPT !.pc = "idle", !.status = "ok"]]
    /\ UNCHANGED <<kbvars, max_history, system_prompt, conversation_history, enable_tts,
                   pc, req, gr, log>>

\* add_to_history, line 128: the assignment of the slice; chat answers
WebTrimAssign(w) ==
    /\ web.th[w].pc = "assign"
    /\ conversation_history' = web.th[w].sliced
    /\ web' = [web EXCEPT !.th[w].pc = "idle", !.th[w].status = "ok",
                          !.touched = @ \cup {w}]
    /\ UNCHANGED <<kbvars, max_history, system_prompt, enable_tts, pc, req, gr, log>>

\* WebClear leaving the history alone while a call is in flight
WebClear_waits ==
    /\ web.clears < MaxClears
    /\ conversation_history' = IF \E w \in Workers : web.th[w].pc # "idle"
                               THEN conversation_history
                               ELSE clear_history(conversation_history)
    /\ log' = <<>>
    /\ web' = [clears |-> web.clears + 1, calls |-> web.calls, touched |-> {},
               th |-> [w \in Workers |->
                         [web.th[w] EXCEPT !.clear_seen =
                              IF web.th[w].pc \in InAdd THEN "in_add"
                              ELSE IF web.th[w].pc = "llm" /\ @ = "none" THEN "in_flight"
                              ELSE @]]]
    /\ UNCHANGED <<kbvars, max_history, system_prompt, enable_tts, pc, req, gr>>

\* POST /api/clear, whatever the chat threads are doing; each thread notes
\* whether the clear came while its call was at create() or inside
\* add_to_history, and touched restarts: the threads that wrote the history
\* since the last clear
WebClear ==
    /\ web.clears < MaxClears
    /\ conversation_history' = clear_history(conversation_history)
    /\ log' = <<>>
    /\ web' = [clears |-> web.clears + 1, calls |-> web.calls, touched |-> {},
               th |-> [w \in Workers |->
                         [web.th[w] EXCEPT !.clear_seen =
                              IF web.th[w].pc \in InAdd THEN "in_add"
                              ELSE IF web.th[w].pc = "llm" /\ @ = "none" THEN "in_flight"
                              ELSE @]]]
    /\ UNCHANGED <<kbvars, max_history, system_prompt, enable_tts, pc, req, gr>>

NextWeb ==
    \/ \E w \in Workers : WebChatCall(w, Some(<<"ctx">>))
    \/ \E w \in Workers : \E o \in WebLLMOutcomes(w) : WebLLMReturn(w, o)
    \/ \E w \in Workers : WebAppendUser(w)
    \/ \E w \in Workers : WebAppendAssistant(w)
    \/ \E w \in Workers : WebTrimRead(w)
    \/ \E w \in Workers : WebTrimAssign(w)
    \/ WebClear

SpecWeb == InitWeb /\ [][NextWeb]_vars

----------------------------------------------------------------------------
(* Conversation history: length, pairs, eviction *)

RECURSIVE Flatten(_)
\* the turns of a sequence of <<user text, assistant text>> pairs
Flatten(pairs) ==
    IF pairs = <<>> THEN <<>>
    ELSE <<Msg("user", Head(pairs)[1]), Msg("assistant", Head(pairs)[2])>> \o Flatten(Tail(pairs))

\* the last k entries of s, none when k = 0
Last(s, k) == SubSeq(s, Len(s) - Min(k, Len(s)) + 1, Len(s))

\* C1: after N appends since construction (or the last clear) the history holds
\* exactly min(2N, 2 * max_history) turns, for every max_history; so it never
\* holds more than 2 * max_history turns.
C1_TurnCount == Len(conversation_history) = Min(2 * Len(log), 2 * max_history)

\* C1 for the configurations that keep at least one pair (config.py sets 10)
C1_TurnCountPositiveMax == max_history >= 1 => C1_TurnCount

\* C2: the history is a sequence of well-formed pairs: even length, a user turn
\* at every even 0-based index and at the next index the assistant turn that
\* was appended with it, whatever add_to_history, generate_response (succeeding
\* or failing) and clear_history calls ran.
C2_WellFormedPairs ==
    /\ Len(conversation_history) % 2 = 0
    /\ \A i \in 1..Len(conversation_history) :
           conversation_history[i].role = IF i % 2 = 1 THEN "user" ELSE "assistant"
    /\ Len(conversation_history) <= 2 * Len(log)
    /\ conversation_history = Flatten(Last(log, Len(conversation_history) \div 2))

\* C2 witness: a generate_response call has failed on a history that already
\* evicted a pair
C2_Witness ==
    /\ pc = "idle"
    /\ gr.response.kind = "raise"
    /\ Len(log) = 2
    /\ Len(conversation_history) = 2

\* C3: the history is the last min(N, max_history) of the N pairs appended, in
\* their order and unaltered, for every max_history; with max_history = 1,
\* three successful generate_response calls leave the third exchange alone.
C3_FifoEviction ==
    conversation_history = Flatten(Last(log, Min(Len(log), max_history)))

\* C3 for the configurations that keep at least one pair
C3_FifoEvictionPositiveMax == max_history >= 1 => C3_FifoEviction

----------------------------------------------------------------------------
(* generate_response: failure, success, the prompt *)

\* the messages between the system instruction and the grounding message (or
\* the new query): the history window of a prompt
HistoryWindow(g) ==
    SubSeq(g.messages, 2, Len(g.messages) - 1 - (IF Truthy(g.context) THEN 1 ELSE 0))

\* s ends with t
EndsWith(s, t) == Len(t) <= Len(s) /\ SubSeq(s, Len(s) - Len(t) + 1, Len(s)) = t

\* C4: when the generative collaborator raises, generate_response returns (it
\* does not raise) a non-empty apology that embeds the failure reason and
\* leaves the history as it was; so the window of every later prompt holds
\* only pairs of exchanges that succeeded.
C4_FailureLeavesHistory ==
    [][ /\ (pc = "llm" /\ gr'.response.kind = "raise") =>
              /\ conversation_history' = conversation_history
              /\ ~IsNone(gr'.ret)
              /\ gr'.ret.val # <<>>
              /\ Head(gr'.ret.val) = ERROR_PREFIX
              /\ EndsWith(gr'.ret.val, gr'.response.reason)
              /\ req'.status \in {"ok", "running"}
        /\ pc' = "llm" =>
              HistoryWindow(gr') = Flatten(Last(log', Len(HistoryWindow(gr')) \div 2))
      ]_vars

\* C4 witness: the call for q2 has failed on the history of one exchange
C4_Witness ==
    /\ pc = "idle"
    /\ gr.response.kind = "raise"
    /\ gr.user_query = <<"q2">>
    /\ gr.ret = Some(<<ERROR_PREFIX, "timeout">>)
    /\ conversation_history = <<Msg("user", <<"q1">>), Msg("assistant", <<"a1">>)>>

\* C5: a generate_response call whose generative call returns text appends
\* exactly one pair, the query and the text extracted from the completion, as
\* the newest pair of the history, and returns the very content of the
\* assistant turn it appended.
C5_SuccessAppendsPair ==
    [][ (pc = "llm" /\ gr'.response.kind = "text") =>
            /\ ~IsNone(gr'.ret)
            /\ gr'.ret.val = Strip(gr'.response.content)
            /\ \E k \in 0..Len(conversation_history) :
                   conversation_history' =
                       SubSeq(conversation_history, k + 1, Len(conversation_history))
                       \o <<Msg("user", gr.user_query), Msg("assistant", gr'.ret.val)>>
            /\ Len(conversation_history') <= Len(conversation_history) + 2
      ]_vars

\* C5 witness: a padded completion was returned on a full history
C5_Witness ==
    /\ pc = "idle"
    /\ gr.response.kind = "text"
    /\ gr.response.content # gr.ret.val
    /\ Len(log) = 3
    /\ Len(conversation_history) = 4

\* C6: the messages sent to the model are, in this order: one system message
\* with the current system instruction, the history window (turns of the
\* history, no system message), one grounding system message iff a non-empty
\* context was supplied, and one user message with the new query, last.
C6_PromptOrder ==
    pc = "llm" =>
        \E w \in 0..Len(conversation_history) :
            gr.messages =
                <<Msg("system", system_prompt)>>
                \o Last(conversation_history, w)
                \o (IF ~IsNone(gr.context) /\ gr.context.val # <<>>
                    THEN <<Msg("system", CONTEXT_PREFIX \o gr.context.val \o CONTEXT_SUFFIX)>>
                    ELSE <<>>)
                \o <<Msg("user", gr.user_query)>>

\* C6 witness: a prompt with all four parts
C6_Witness ==
    /\ pc = "llm"
    /\ Truthy(gr.context)
    /\ Len(HistoryWindow(gr)) = 2
    /\ Len(gr.messages) = 5

\* C7: the history window of a prompt is the most recent
\* min(max_history, stored pairs) pairs of the history, oldest first, and has
\* at most 2 * max_history entries, for every max_history.
C7_WindowIsRecentPairs ==
    (pc = "llm" /\ gr.include_history) =>
        /\ HistoryWindow(gr) =
               Last(conversation_history,
                    2 * Min(max_history, Len(conversation_history) \div 2))
        /\ Len(HistoryWindow(gr)) <= 2 * max_history

\* C7 for the configurations that keep at least one pair
C7_WindowPositiveMax == max_history >= 1 => C7_WindowIsRecentPairs

\* the text appears in some message
Mentions(messages, text) ==
    \E i \in 1..Len(messages) :
        \E j \in 1..Len(messages[i].content) :
            EndsWith(SubSeq(messages[i].content, 1, j), text)

\* C8: in process_query and in the web chat handler, an empty search result
\* sends no grounding message (context absent, the no-information sentinel
\* nowhere in the messages); a non-empty one sends the formatted context as
\* the grounding message.
C8_NoSentinelInPrompt ==
    (pc = "llm" /\ req.op \in {"process_query", "chat"}) =>
        LET sr == req.search_results
            n  == Len(gr.messages)
        IN  /\ sr.count = 0 =>
                  /\ IsNone(gr.context)
                  /\ ~Mentions(gr.messages, NO_INFO_SENTINEL)
                  /\ \A i \in 2..n : gr.messages[i].role # "system"
            /\ sr.count > 0 =>
                  /\ gr.context = Some(format_context(sr))
                  /\ gr.messages[n - 1] =
                         Msg("system", CONTEXT_PREFIX \o format_context(sr) \o CONTEXT_SUFFIX)

\* C8 witness: process_query reached the generative call with nothing found
C8_Witness ==
    /\ pc = "llm"
    /\ req.op = "process_query"
    /\ req.search_results.count = 0
    /\ conversation_history # <<>>

\* C9: a generate_response call invokes the generative collaborator exactly
\* once, whether the invocation returns text, returns no content or raises; a
\* failure is not retried.
C9_OneInvocation ==
    /\ gr.invocations <= 1
    /\ pc = "llm" => gr.invocations = 0
    /\ gr.response.kind # "pending" => (gr.invocations = 1 /\ pc # "llm")
    /\ (pc \in {"idle", "tts"} /\ req.status \in {"ok", "running"}) => gr.invocations = 1

\* C9 witness: a call returned after its invocation raised
C9_Witness ==
    /\ pc = "idle"
    /\ req.op = "generate_response"
    /\ gr.response.kind = "raise"
    /\ gr.invocations = 1

\* C10: generate_response never returns None: a completion without content
\* gives the fixed non-empty fallback, and every outcome gives a string.
C10_NeverReturnsNone ==
    gr.response.kind # "pending" =>
        /\ ~IsNone(gr.ret)
        /\ gr.ret.val \in Seq(STRING)
        /\ gr.response.kind = "absent" =>
               /\ gr.ret.val = <<"I apologize, but I couldn't generate a response.">>
               /\ gr.ret.val # <<>>

\* C10 witness: a completion without content was answered
C10_Witness ==
    /\ pc = "idle"
    /\ gr.response.kind = "absent"
    /\ ~IsNone(gr.ret)

----------------------------------------------------------------------------
(* Retrieval failure *)

\* C11: when query() raises during search, search returns the empty result and
\* the store is unchanged; process_query goes on to the generative call with the
\* context absent, and when it returns it returns a response text with
\* sources_found = 0.
C11_SearchFailureDegrades ==
    [][/\ (pc = "search" /\ req'.search_error) =>
              /\ req'.search_results = EmptyResult
              /\ collection' = collection
              /\ (req.op = "process_query" =>
                     /\ pc' = "llm"
                     /\ req'.status = "running"
                     /\ gr'.context = None
                     /\ gr'.user_query = req.user_query)
       /\ (req.op = "process_query" /\ req.search_error /\ pc = "llm") =>
              /\ req'.status \in {"ok", "running"}
              /\ ~IsNone(req'.response)
              /\ Len(req'.response.val) > 0
              /\ req'.search_results.count = 0
       /\ (req.op = "process_query" /\ req.search_error /\ pc = "tts") =>
              /\ req'.status = "ok"
              /\ req'.response = req.response
              /\ req'.search_results.count = 0]_vars

\* process_query has returned an answer after query() raised
C11_Witness ==
    /\ pc = "idle"
    /\ req.op = "process_query"
    /\ req.search_error
    /\ req.status = "ok"
    /\ req.response = Some(<<"a1">>)
    /\ req.search_results.count = 0
    /\ IsNone(gr.context)

----------------------------------------------------------------------------
(* Audio as a side channel *)

\* C12: whatever the text_to_speech call of process_query does (returns a path,
\* returns None, raises), process_query returns the response text that
\* generate_response returned and the count of the search, which is what it
\* returns with audio disabled; audio_path is absent unless a path was returned;
\* the history and the store are as generate_response left them.
C12_AudioBestEffort ==
    [][/\ (pc = "tts" /\ req.op = "process_query") =>
              /\ pc' = "idle"
              /\ req'.status = "ok"
              /\ req'.response = gr.ret
              /\ req'.search_results = req.search_results
              /\ conversation_history' = conversation_history
              /\ log' = log
              /\ collection' = collection
              /\ (req'.tts_outcome # "path" => IsNone(req'.audio_path))
              /\ (req'.tts_outcome = "path" => req'.audio_path = Some(AUDIO_PATH))
       /\ (pc = "llm" /\ req.op = "process_query") =>
              /\ req'.response = gr'.ret
              /\ req'.search_results = req.search_results
              /\ (~WantsAudio => req'.status = "ok" /\ pc' = "idle" /\ IsNone(req'.audio_path))]_vars

\* process_query has returned its answer after the text_to_speech call raised
C12_Witness ==
    /\ pc = "idle"
    /\ req.op = "process_query"
    /\ req.tts_outcome = "raise"
    /\ req.status = "ok"
    /\ req.response = Some(<<"a1">>)
    /\ IsNone(req.audio_path)
    /\ req.search_results.count = 2
    /\ Len(conversation_history) = 2

----------------------------------------------------------------------------
(* Ingestion *)

\* a batch with an entry without an id, or with two entries of one id
InvalidBatch(faqs) ==
    \/ \E i \in 1..Len(faqs) : "id" \notin DOMAIN faqs[i]
    \/ \E i, j \in 1..Len(faqs) :
          /\ i < j
          /\ "id" \in DOMAIN faqs[i]
          /\ "id" \in DOMAIN faqs[j]
          /\ faqs[i].id = faqs[j].id

\* the call returned at the reload check, before looking at the batch
Skipped(frame) ==
    /\ Len(frame.before) > 0
    /\ (frame.skip_prompt \/ (~IsNone(frame.answer) /\ PromptResponse(frame.answer.val) # <<"y">>))

\* C13: a load_faqs_from_json call on a batch with a missing or duplicate id
\* leaves the store holding exactly the documents it held before the call,
\* whether or not a reset was authorized, and returns 0 when it got as far as
\* the batch.
C13_InvalidBatchKeepsStore ==
    (kb.op = "load_faqs" /\ kb.file.kind = "faqs" /\ InvalidBatch(kb.file.faqs)) =>
        /\ collection = kb.before
        /\ (~Skipped(kb) => kb.ret = 0)

\* the caller of the call authorized a reset: the prompt was shown and the
\* answer, stripped and lower-cased, is y
Authorized(frame) ==
    /\ ~frame.skip_prompt
    /\ ~IsNone(frame.answer)
    /\ PromptResponse(frame.answer.val) = <<"y">>

----------------------------------------------------------------------------
(* Search *)

\* C15: search(query, top_k) returns at most top_k results (config.TOP_K_RESULTS
\* when top_k is None), closest first; on an empty store it returns the empty
\* result.
C15_TopKAscending ==
    kb.op = "search" =>
        LET r == kb.result
            k == IF IsNone(kb.top_k) THEN TOP_K_RESULTS ELSE kb.top_k.val
        IN  /\ r.count <= k
            /\ Len(r.documents) <= k
            /\ Len(r.metadatas) <= k
            /\ Len(r.distances) <= k
            /\ \A i, j \in 1..Len(r.distances) : i < j => r.distances[i] <= r.distances[j]
            /\ (collection = <<>> => r = EmptyResult)

\* a search with top_k = 1 over a store of three documents returned the one
\* closest document, which is not the first of the store
C15_Witness ==
    /\ kb.op = "search"
    /\ kb.top_k = Some(1)
    /\ ~kb.raised
    /\ Len(collection) = 3
    /\ kb.result.count = 1
    /\ kb.result.distances = <<254>>
    /\ kb.result.documents = <<collection[3].document>>

----------------------------------------------------------------------------
(* format_context *)

\* a search result whose three lists have count entries each
WellFormed(r) ==
    /\ Len(r.documents) = r.count
    /\ Len(r.metadatas) = r.count
    /\ Len(r.distances) = r.count

\* the two-place numerals a relevance of the model can print as
Numerals ==
    LET far == CHOOSE d \in Distances : \A e \in Distances : e <= d
    IN  {Numeral(neg, h) : neg \in BOOLEAN, h \in 0..((Max(far, 1000) \div 10) + 1)}

\* the value, in thousandths, that a numeral denotes
Denotes(n) == IF n.neg THEN 0 - (10 * n.h) ELSE 10 * n.h

\* the first line of the i-th block, printing the numeral n
SourceLine(i, n) == "\n[Source " \o ToString(i) \o " - Relevance: " \o NumeralText(n) \o "]"

\* C16: format_context returns the sentinel exactly when count is 0; for a
\* well-formed result of count > 0 it returns the header followed by one block
\* of four lines per result in the order of the result, the i-th block labelled
\* i and carrying the category (N/A when the metadata has none), the question
\* and the answer of the i-th result.
C16_ContextBlocks ==
    (kb.op = "format_context" /\ WellFormed(kb.result)) =>
        LET r == kb.result
            c == kb.context
        IN  /\ (c = NO_INFO_SENTINEL) <=> (r.count = 0)
            /\ r.count > 0 =>
                  /\ Len(c) = 1 + (4 * r.count)
                  /\ c[1] = CONTEXT_HEADER
                  /\ \A i \in 1..r.count :
                        LET m == r.metadatas[i]
                            b == 4 * (i - 1) + 1
                        IN  /\ \E n \in Numerals : c[b + 1] = SourceLine(i, n)
                            /\ c[b + 2] = "Category: " \o
                                    (IF "category" \in DOMAIN m THEN m.category ELSE "N/A")
                            /\ c[b + 3] = "Q: " \o m.question
                            /\ c[b + 4] = "A: " \o m.answer

\* the context of a result of two sources, the second one without a category
C16_Witness ==
    /\ kb.op = "format_context"
    /\ kb.result.count = 2
    /\ kb.result.metadatas[1].category = "billing"
    /\ "category" \notin DOMAIN kb.result.metadatas[2]
    /\ Len(kb.context) = 9
    /\ kb.context[3] = "Category: billing"
    /\ kb.context[7] = "Category: N/A"
    /\ kb.context[8] = "Q: Q2"

\* C17 as stated: the relevance printed for every source of a formatted result
\* is a numeral denoting exactly 1 - d.
C17_RelevanceExact ==
    (kb.op = "format_context" /\ WellFormed(kb.result)) =>
        \A i \in 1..kb.result.count :
            \E n \in Numerals :
                /\ kb.context[4 * (i - 1) + 2] = SourceLine(i, n)
                /\ Denotes(n) = 1000 - kb.result.distances[i]

\* C17: the relevance printed for every source of a formatted result is 1 - d
\* rounded to the nearest hundredth (within 0.005 of 1 - d), with its sign, and
\* is not clamped: a distance above 1 prints a negative relevance.
C17_RelevanceRounded ==
    (kb.op = "format_context" /\ WellFormed(kb.result)) =>
        \A i \in 1..kb.result.count :
            \E n \in Numerals :
                LET x == 1000 - kb.result.distances[i]
                IN  /\ kb.context[4 * (i - 1) + 2] = SourceLine(i, n)
                    /\ Denotes(n) - x <= 5
                    /\ x - Denotes(n) <= 5
                    /\ n.neg <=> x < 0

\* a formatted result whose first source is at distance 0.254 and prints 0.75,
\* and whose second source is at distance 1.5 and prints -0.50
C17_Witness ==
    /\ kb.op = "format_context"
    /\ kb.result.distances = <<254, 1500>>
    /\ kb.context[2] = "\n[Source 1 - Relevance: 0.75]"
    /\ kb.context[6] = "\n[Source 2 - Relevance: -0.50]"

----------------------------------------------------------------------------
(* Speech synthesis *)

\* the positions of a batch whose text_to_speech call gave a path
Succeeded(frame) ==
    SelectSeq(frame.attempted, LAMBDA k : frame.loaded /\ frame.outcomes[k] = "ok")

\* C18: batch_convert calls text_to_speech for the entries 1, 2, ... in order,
\* once each, whatever the earlier calls gave, and has attempted every entry
\* when it returns; the paths it collects are those of the entries that gave a
\* path, in input order, each named after the position of its entry.
C18_BatchContinuesOnError ==
    tts.op = "batch_convert" =>
        /\ tts.attempted = [k \in 1..Len(tts.attempted) |-> k]
        /\ Len(tts.attempted) <= Len(tts.texts)
        /\ tts.done <=> Len(tts.attempted) = Len(tts.texts)
        /\ tts.audio_files =
               [j \in 1..Len(Succeeded(tts)) |->
                    "audio_responses/batch_" \o ToString(Succeeded(tts)[j]) \o ".wav"]

\* batch_convert has returned for three texts of which only the second failed
C18_Witness ==
    /\ tts.op = "batch_convert"
    /\ tts.done
    /\ Len(tts.texts) = 3
    /\ tts.outcomes = <<"ok", "raise", "ok">>
    /\ tts.audio_files = <<"audio_responses/batch_1.wav", "audio_responses/batch_3.wav">>

\* C19: the text text_to_speech hands to the tokenizer has at most 500
\* characters: a text of more than 500 characters is handed as its first 497
\* characters followed by "...", 500 characters in all, and a text of at most
\* 500 characters is handed unchanged.
C19_TruncatedTo500 ==
    (tts.op = "text_to_speech" /\ ~IsNone(tts.handed)) =>
        LET t == tts.text
            h == tts.handed.val
        IN  /\ Len(h) <= 500
            /\ Len(t) > 500 =>
                  /\ Len(h) = 500
                  /\ \A i \in 1..497 : h[i] = t[i]
                  /\ \A i \in 498..500 : h[i] = "."
            /\ Len(t) <= 500 => h = t

\* a text of 501 characters was handed over as 500 characters ending in "..."
C19_Witness ==
    /\ tts.op = "text_to_speech"
    /\ Len(tts.text) = 501
    /\ ~IsNone(tts.handed)
    /\ Len(tts.handed.val) = 500
    /\ tts.handed.val[497] = tts.text[497]
    /\ tts.handed.val[498] = "."

----------------------------------------------------------------------------
(* Clearing the history *)

\* C20: a clear_history call leaves the history empty whatever it held; a
\* second call right after it, or a call on an empty history, changes nothing
\* of the history, and clearing the cleared history gives it again.
C20_ClearIdempotent ==
    [][req'.op = "clear_history" =>
          /\ conversation_history' = <<>>
          /\ clear_history(conversation_history') = conversation_history'
          /\ ((req.op = "clear_history" \/ conversation_history = <<>>) =>
                 conversation_history' = conversation_history)]_vars

\* clear_history has emptied a history of two exchanges
C20_Witness ==
    /\ req.op = "clear_history"
    /\ req.cleared = 4
    /\ conversation_history = <<>>
    /\ pc = "idle"

----------------------------------------------------------------------------
(* The system prompt *)

\* C21: set_system_prompt(text) changes the system prompt to text and nothing
\* else: the history and the frame of a completed generate_response call are
\* as they were; the prompt changes on no other step; and every
\* generate_response call starts its messages with the system prompt in force,
\* which is the text of the last set_system_prompt.
C21_SystemPromptNextCall ==
    [][/\ req'.op = "set_system_prompt" =>
              /\ system_prompt' = req'.new_prompt
              /\ conversation_history' = conversation_history
              /\ max_history' = max_history
              /\ log' = log
              /\ gr' = gr
              /\ pc' = pc
       /\ req'.op # "set_system_prompt" => system_prompt' = system_prompt
       /\ (pc # "llm" /\ pc' = "llm") =>
              /\ gr'.messages[1] = Msg("system", system_prompt)
              /\ (req.op = "set_system_prompt" =>
                     gr'.messages[1] = Msg("system", req.new_prompt))]_vars

\* a call made with the default prompt has completed, the prompt was then
\* changed, and the call now in flight starts with the new prompt
C21_Witness ==
    /\ pc = "llm"
    /\ system_prompt = <<"custom prompt">>
    /\ gr.messages[1] = Msg("system", <<"custom prompt">>)
    /\ Len(conversation_history) = 2
    /\ Len(log) = 1

----------------------------------------------------------------------------
(* The web front end: requests side by side *)

\* the threads with a generate_response call in flight
InFlight == {w \in Workers : web.th[w].pc # "idle"}

\* C22: in the web front end no two generate_response calls are in flight at
\* the same time against the shared conversation history.  (SpecWeb)
C22_OneAtATime == Cardinality(InFlight) <= 1

----------------------------------------------------------------------------
(* Statistics *)

\* the sum of the counts of a histogram
RECURSIVE SumCounts(_)
SumCounts(h) ==
    IF DOMAIN h = {} THEN 0
    ELSE LET c == CHOOSE x \in DOMAIN h : TRUE
         IN  h[c] + SumCounts([d \in DOMAIN h \ {c} |-> h[d]])

\* the documents of a store held under a category, "unknown" when they have none
Under(store, c) ==
    {i \in 1..Len(store) :
        IF "category" \in DOMAIN store[i].metadata THEN store[i].metadata.category = c
        ELSE c = "unknown"}

\* the histogram counts every document of the store once, under its category
\* or under "unknown", and its counts sum to total
Exact(categories, store, total) ==
    /\ SumCounts(categories) = total
    /\ \A i \in 1..Len(store) :
          LET c == IF "category" \in DOMAIN store[i].metadata
                   THEN store[i].metadata.category ELSE "unknown"
          IN  /\ c \in DOMAIN categories
              /\ categories[c] = Cardinality(Under(store, c))

----------------------------------------------------------------------------
(* The order of the stages of one process_query *)

\* C24: within one process_query the search completes before the generative
\* call starts, the generative call completes before the pair is appended,
\* and speech synthesis starts only after generate_response has returned,
\* so after the append.
C24_StageOrder ==
    [][req'.op = "process_query" =>
          /\ (pc # "search" /\ pc' = "search") =>
                 /\ pc = "idle"
                 /\ gr' = NoCall
                 /\ log' = log
          /\ (pc # "llm" /\ pc' = "llm") =>
                 /\ pc = "search"
                 /\ req.op = "process_query"
                 /\ gr'.invocations = 0
                 /\ IsNone(gr'.ret)
                 /\ log' = log
          /\ (pc # "idle" /\ log' # log) =>
                 /\ pc = "llm"
                 /\ gr.invocations = 0 /\ gr'.invocations = 1
                 /\ gr'.response.kind # "raise"
                 /\ log' = Append(log, <<req.user_query, gr'.ret.val>>)
          /\ (pc # "tts" /\ pc' = "tts") =>
                 /\ pc = "llm"
                 /\ gr'.invocations = 1
                 /\ ~IsNone(gr'.ret)
                 /\ req'.response = gr'.ret
                 /\ gr'.response.kind # "raise" =>
                        log' = Append(log, <<req.user_query, gr'.ret.val>>)
          /\ pc = "tts" =>
                 /\ gr' = gr
                 /\ log' = log
                 /\ conversation_history' = conversation_history]_vars

C24_Witness ==
    /\ req.op = "process_query"
    /\ pc = "tts"
    /\ req.search_results.count > 0
    /\ gr.invocations = 1
    /\ gr.response.kind = "text"
    /\ Len(log) > 0
    /\ log[Len(log)] = <<req.user_query, gr.ret.val>>

\* C25: process_query never raises and always returns a result with a response
\* text, whatever the search, the generative call and the speech synthesis do.
C25_ProcessQueryReturns ==
    (req.op = "process_query" /\ pc = "idle") =>
        /\ req.status = "ok"
        /\ ~IsNone(req.response)

----------------------------------------------------------------------------
(* The empty completion *)

\* the pair an empty completion leaves in the history
FallbackPair(user_query) ==
    <<Msg("user", user_query), Msg("assistant", EMPTY_COMPLETION_FALLBACK)>>

\* C26: when the generative call returns absent content, generate_response
\* appends the pair (user_query, fallback apology) to the history and returns
\* the apology, while the exception path appends nothing; the fallback text is
\* then part of the prompt of the following calls that include the history.
C26_EmptyCompletionRecorded ==
    [][/\ (pc = "llm" /\ pc' # "llm" /\ gr'.response.kind = "absent") =>
              /\ gr'.ret = Some(EMPTY_COMPLETION_FALLBACK)
              /\ log' = Append(log, <<gr.user_query, EMPTY_COMPLETION_FALLBACK>>)
              /\ EndsWith(conversation_history', FallbackPair(gr.user_query))
       /\ (pc = "llm" /\ pc' # "llm" /\ gr'.response.kind = "raise") =>
              /\ log' = log
              /\ conversation_history' = conversation_history
       /\ (pc # "llm" /\ pc' = "llm" /\ gr'.include_history
             /\ \E q \in Queries : EndsWith(conversation_history, FallbackPair(q))) =>
              \E i \in 1..Len(gr'.messages) :
                  gr'.messages[i] = Msg("assistant", EMPTY_COMPLETION_FALLBACK)]_vars

C26_Witness ==
    /\ pc = "llm"
    /\ gr.include_history
    /\ Len(log) = 1
    /\ log[1][2] = EMPTY_COMPLETION_FALLBACK
    /\ EndsWith(conversation_history, FallbackPair(log[1][1]))
    /\ \E i \in 1..Len(gr.messages) :
          gr.messages[i] = Msg("assistant", EMPTY_COMPLETION_FALLBACK)

\* C27: whatever the interleaving of two overlapping generate_response calls,
\* once no call is inside add_to_history the history is even-length, at most
\* 2 * max_history long, and is the last max_history appended pairs in order,
\* each user turn followed by the reply to that query.  (SpecWeb, no clear)
C27_InterleavedHistoryIntact ==
    (web.clears = 0 /\ \A w \in Workers : web.th[w].pc \notin InAdd) =>
        /\ Len(conversation_history) % 2 = 0
        /\ Len(conversation_history) <= 2 * max_history
        /\ conversation_history = Flatten(Last(log, max_history))

\* the threads whose last call got a clear_history between its prompt and its
\* add_to_history, has completed, and is the only writer of the history since
ClearedInFlight ==
    {w \in Workers : /\ web.th[w].pc = "idle"
                     /\ web.th[w].status = "ok"
                     /\ web.th[w].clear_seen = "in_flight"
                     /\ web.touched = {w}}

\* C28: a clear_history that runs while a generate_response call is in flight,
\* after its prompt was assembled and before its add_to_history, does not
\* cancel the append: when the call completes the history holds exactly the
\* pair of that call and no turn from before the clear.  (SpecWeb)
C28_ClearKeepsInFlightAppend ==
    \A w \in ClearedInFlight :
        conversation_history =
            <<Msg("user", web.th[w].user_query),
              Msg("assistant", web.th[w].assistant_response)>>

\* the prompt of the call held a turn that the clear removed
C28_Witness ==
    \E w \in ClearedInFlight :
        /\ Len(conversation_history) = 2
        /\ \E i \in 1..Len(web.th[w].messages) :
              /\ web.th[w].messages[i].role = "assistant"
              /\ \A j \in 1..Len(conversation_history) :
                    conversation_history[j] # web.th[w].messages[i]

----------------------------------------------------------------------------
(* Ingestion *)

\* the entries a store holds
Holds(store) == {store[i] : i \in 1..Len(store)}

\* C29: after any load_faqs_from_json either every entry of the batch has been
\* added and the call returns the batch size, or none has and the call
\* returns 0 or the count the store had; no part of a batch is left in the
\* store.  (SpecKB)
C29_AllOrNothing ==
    (kb.op = "load_faqs" /\ kb.file.kind = "faqs") =>
        \/ /\ kb.ret = Len(kb.file.faqs)
           /\ \A i \in 1..Len(kb.file.faqs) :
                 /\ FaqKeys \subseteq DOMAIN kb.file.faqs[i]
                 /\ Prepare(kb.file.faqs[i]) \in Holds(collection)
        \/ /\ kb.ret \in {0, Len(kb.before)}
           /\ Holds(collection) \subseteq Holds(kb.before)

----------------------------------------------------------------------------
(* The shape of a search result *)

\* C30: every value search returns is well-formed, whatever the shape of the
\* collaborator's response: count is the number of documents, metadatas and
\* distances have count entries each, and count = 0 means the three lists
\* are empty.
C30_SearchWellFormed ==
    (req.op \in {"process_query", "chat"} /\ pc # "search") =>
        /\ WellFormed(req.search_results)
        /\ req.search_results.count = 0 =>
              /\ req.search_results.documents = <<>>
              /\ req.search_results.metadatas = <<>>
              /\ req.search_results.distances = <<>>

====
